---- MODULE Spec2Model ----
(***************************************************************************)
(* check_users.py: load the environment, open one database connection,    *)
(* run one SELECT over users, print a flat table and a summary grouped by  *)
(* platform, close the connection.                                         *)
(*                                                                         *)
(* Strings are sequences of code points, so slicing, padding, upper() and  *)
(* the ordering used by sorted() are computed as Python computes them.     *)
(* An optional column is a record [some, val]; None is [some |-> FALSE].   *)
(***************************************************************************)
EXTENDS Integers, Sequences, FiniteSets

VARIABLES pc, environ, dotenv, db, connArgs, connOpen, connects, queries,
          cursorOpen, users, i, platforms, order, j, out, uncaught

vars == <<pc, environ, dotenv, db, connArgs, connOpen, connects, queries,
          cursorOpen, users, i, platforms, order, j, out, uncaught>>

(* ------------------------------ bounds -------------------------------- *)

\* longest query result enumerated for the grouping cases
MaxUsers == 2

\* how far past a column width the enumerated field values reach
MaxOver == 1

(* ----------------------- constants of the program --------------------- *)

EmailWidth == 40
NameWidth == 25
RoleWidth == 15
PlatformWidth == 15
ActiveWidth == 8
LastLoginWidth == 20
MemberEmailWidth == 35
RuleWidth == 120

Space == 32
CheckGlyph == 9989
CrossGlyph == 10060

NA == <<78, 47, 65>>
Never == <<78, 101, 118, 101, 114>>
General == <<71, 101, 110, 101, 114, 97, 108>>
NoneText == <<78, 111, 110, 101>>
ActiveText == <<65, 99, 116, 105, 118, 101>>
InactiveText == <<73, 110, 97, 99, 116, 105, 118, 101>>
MemberPrefix == <<32, 32, 45, 32>>
RoleOpen == <<32, 40>>
RoleClose == <<41, 32, 45, 32>>

EnvVars == {"DB_HOST", "DB_PORT", "DB_NAME", "DB_USER", "DB_PASSWORD"}

Default == [v \in EnvVars |->
              CASE v = "DB_HOST" -> "localhost"
                [] v = "DB_PORT" -> "5432"
                [] v = "DB_NAME" -> "smartattend"
                [] v = "DB_USER" -> "smartattend_user"
                [] v = "DB_PASSWORD" -> "smartattend_password"]

Psycopg2Errors == {"OperationalError", "ProgrammingError"}
Exceptions == Psycopg2Errors \cup {"TypeError"}

(* ------------------------- Python primitives -------------------------- *)

Min(a, b) == IF a < b THEN a ELSE b

None == [some |-> FALSE, val |-> <<>>]
Some(s) == [some |-> TRUE, val |-> s]

\* truth value of an optional string: None and "" are false
Truthy(o) == o.some /\ o.val # <<>>

Rep(c, n) == [k \in 1..n |-> c]

\* s[:w]
Slice(s, w) == SubSeq(s, 1, Min(Len(s), w))

\* format(s, "<w"): pad on the right up to w, never cut
LJust(s, w) == IF Len(s) >= w THEN s ELSE s \o Rep(Space, w - Len(s))

UpperChar(c) == IF c >= 97 /\ c <= 122 THEN c - 32 ELSE c
Upper(s) == [k \in 1..Len(s) |-> UpperChar(s[k])]

\* a < b for str: first differing code point decides, a proper prefix is smaller
LexLess(a, b) ==
    \E k \in 1..(Min(Len(a), Len(b)) + 1) :
        /\ \A m \in 1..(k - 1) : a[m] = b[m]
        /\ \/ k > Len(a) /\ k <= Len(b)
           \/ k <= Len(a) /\ k <= Len(b) /\ a[k] < b[k]

RECURSIVE SortedByUpper(_)
SortedByUpper(S) ==
    IF S = {} THEN <<>>
    ELSE LET m == CHOOSE x \in S : \A y \in S \ {x} :
                      LexLess(Upper(x), Upper(y)) \/ Upper(x) = Upper(y)
         IN  <<m>> \o SortedByUpper(S \ {m})

\* sorted(platforms.items()): the keys of a dict are distinct, so the pairs
\* are ordered by key alone
RECURSIVE Sorted(_)
Sorted(S) ==
    IF S = {} THEN <<>>
    ELSE LET m == CHOOSE x \in S : \A y \in S \ {x} : LexLess(x, y)
         IN  <<m>> \o Sorted(S \ {m})

Pow10(n) == IF n = 0 THEN 1 ELSE IF n = 1 THEN 10 ELSE IF n = 2 THEN 100
            ELSE IF n = 3 THEN 1000 ELSE IF n = 4 THEN 10000 ELSE 100000

\* "%0wd" % n
Digits(n, w) == [k \in 1..w |-> 48 + ((n \div Pow10(w - k)) % 10)]

\* str(datetime): ISO date, a space, the time, and the microseconds only
\* when they are not zero
StrDatetime(t) ==
    Digits(t.year, 4) \o <<45>> \o Digits(t.month, 2) \o <<45>> \o Digits(t.day, 2)
    \o <<32>> \o Digits(t.hour, 2) \o <<58>> \o Digits(t.minute, 2) \o <<58>>
    \o Digits(t.second, 2)
    \o (IF t.microsecond # 0 THEN <<46>> \o Digits(t.microsecond, 6) ELSE <<>>)

GetenvOr(e, k, d) == IF k \in DOMAIN e /\ e[k] # "" THEN e[k] ELSE d

\* os.getenv(k, d)
Getenv(e, k, d) == IF k \in DOMAIN e THEN e[k] ELSE d

\* load_dotenv(): a variable of the file is set only where the process
\* environment does not have it already
LoadedEnviron(e, f) ==
    [k \in DOMAIN e \cup DOMAIN f |-> IF k \in DOMAIN e THEN e[k] ELSE f[k]]

(* ----------------------------- rendering ------------------------------ *)

SliceShort(s, w) == SubSeq(s, 1, Min(Len(s), w - 1))

\* the [:w] of a table field
Trunc(s, w) == Slice(s, w)

EmailField(user) == Trunc(user.email, EmailWidth)
NameField(user) ==
    Trunc(IF Truthy(user.full_name) THEN user.full_name.val ELSE NA, NameWidth)
RoleField(user) == Trunc(user.role.val, RoleWidth)
PlatformField(user) ==
    IF Truthy(user.platform) THEN Trunc(user.platform.val, PlatformWidth) ELSE NA
ActiveField(user) == IF user.is_active THEN <<CheckGlyph>> ELSE <<CrossGlyph>>
LastLoginField(user) ==
    IF user.last_login.some
    THEN Trunc(StrDatetime(user.last_login.val), LastLoginWidth)
    ELSE Never

RowText(user) ==
    LJust(EmailField(user), EmailWidth) \o <<Space>>
    \o LJust(NameField(user), NameWidth) \o <<Space>>
    \o LJust(RoleField(user), RoleWidth) \o <<Space>>
    \o LJust(PlatformField(user), PlatformWidth) \o <<Space>>
    \o LJust(ActiveField(user), ActiveWidth) \o <<Space>>
    \o LJust(LastLoginField(user), LastLoginWidth)

\* {user['email']:<35}
MemberEmail(user) == LJust(user.email, MemberEmailWidth)

MemberText(user) ==
    MemberPrefix \o MemberEmail(user) \o RoleOpen
    \o (IF user.role.some THEN user.role.val ELSE NoneText) \o RoleClose
    \o (IF user.is_active THEN ActiveText ELSE InactiveText)

GroupKeyNoneOnly(p) == IF p.some THEN p.val ELSE General

\* user['platform'] or 'General'
GroupKey(p) == IF Truthy(p) THEN p.val ELSE General

RuleLine(c) == [kind |-> "rule", text |-> Rep(c, RuleWidth)]
MemberLines(us) == [k \in 1..Len(us) |-> [kind |-> "member", text |-> MemberText(us[k])]]

\* which except clause takes an exception
ExceptClause(exc) ==
    IF exc \in Psycopg2Errors THEN "db_error"
    ELSE IF exc \in Exceptions THEN "error"
    ELSE "uncaught"

\* the exception leaves the try block: one message, and the run is over
Handle(exc) ==
    /\ pc' = "done"
    /\ IF ExceptClause(exc) = "uncaught"
       THEN out' = out /\ uncaught' = TRUE
       ELSE out' = Append(out, [kind |-> ExceptClause(exc), exc |-> exc])
            /\ uncaught' = uncaught

(* --------------------------- the environment -------------------------- *)

EmptyEnv == [k \in {} |-> ""]

\* every assignment of the given values to some of the five variables
Envs(vals) == UNION {[S -> vals] : S \in SUBSET EnvVars}

Str(n) == [k \in 1..n |-> 97 + ((k - 1) % 26)]

\* lengths around a column width: short, exactly the width, and past it
Lengths(w) == {1, w} \cup ((w + 1)..(w + MaxOver))

Email1 == <<97, 64, 120>>
Email2 == <<98, 64, 120>>
Admin == <<97, 100, 109, 105, 110>>
Corp == <<99, 111, 114, 112>>
LMS == <<76, 77, 83>>

Login1 == [year |-> 2024, month |-> 1, day |-> 5, hour |-> 9, minute |-> 3,
           second |-> 7, microsecond |-> 0]
Login2 == [year |-> 2023, month |-> 11, day |-> 30, hour |-> 23, minute |-> 59,
           second |-> 58, microsecond |-> 123456]

\* rows of users as the schema admits them: email and is_active are never
\* null; full_name, role, platform and last_login may be
GroupRecords ==
    [email : {Email1, Email2},
     full_name : {None},
     role : {None, Some(Admin)},
     platform : {None, Some(<<>>), Some(General), Some(Corp), Some(LMS)},
     is_active : {TRUE},
     last_login : {None}]

FormatRecords ==
    [email : {Str(n) : n \in Lengths(MemberEmailWidth) \cup Lengths(EmailWidth)},
     full_name : {None, Some(<<>>)} \cup {Some(Str(n)) : n \in Lengths(NameWidth)},
     role : {None} \cup {Some(Str(n)) : n \in Lengths(RoleWidth)},
     platform : {None, Some(<<>>)} \cup {Some(Str(n)) : n \in Lengths(PlatformWidth)},
     is_active : BOOLEAN,
     last_login : {None, Some(Login1), Some(Login2)}]

SeqsUpTo(S, n) == UNION {[1..m -> S] : m \in 0..n}

DbDown == [status |-> "down", rows |-> <<>>]
DbNoTable == [status |-> "no_table", rows |-> <<>>]
DbOk(rows) == [status |-> "ok", rows |-> rows]

\* the database the run meets: unreachable, reachable without a usable users
\* table, or reachable with the rows in the order the query returns them
Dbs ==
    {DbDown, DbNoTable}
    \cup {DbOk(rows) : rows \in SeqsUpTo(GroupRecords, MaxUsers)}
    \cup {DbOk(<<r>>) : r \in FormatRecords}

InitRun ==
    /\ pc = "load"
    /\ connArgs = EmptyEnv
    /\ connOpen = FALSE
    /\ connects = 0
    /\ queries = 0
    /\ cursorOpen = FALSE
    /\ users = <<>>
    /\ i = 0
    /\ platforms = <<>>
    /\ order = <<>>
    /\ j = 0
    /\ out = <<>>
    /\ uncaught = FALSE

Init ==
    /\ InitRun
    /\ environ = EmptyEnv
    /\ dotenv = EmptyEnv
    /\ db \in Dbs

InitConfig ==
    /\ InitRun
    /\ environ \in Envs({"", "custom"})
    /\ dotenv \in Envs({"", "dotfile"})
    /\ db \in {DbDown, DbOk(<<>>)}

(* ------------------------------- the run ------------------------------ *)

\* line 11
LoadDotenv ==
    /\ pc = "load"
    /\ environ' = LoadedEnviron(environ, dotenv)
    /\ pc' = "connect"
    /\ UNCHANGED <<dotenv, db, connArgs, connOpen, connects, queries, cursorOpen,
                   users, i, platforms, order, j, out, uncaught>>

ConnectArgs ==
    [host |-> Getenv(environ, "DB_HOST", Default["DB_HOST"]),
     port |-> Getenv(environ, "DB_PORT", Default["DB_PORT"]),
     database |-> Getenv(environ, "DB_NAME", Default["DB_NAME"]),
     user |-> Getenv(environ, "DB_USER", Default["DB_USER"]),
     password |-> Getenv(environ, "DB_PASSWORD", Default["DB_PASSWORD"])]

\* lines 15-23, the connection is made
ConnectOk ==
    /\ pc = "connect"
    /\ db.status # "down"
    /\ connArgs' = ConnectArgs
    /\ connects' = connects + 1
    /\ connOpen' = TRUE
    /\ out' = Append(out, [kind |-> "connected"])
    /\ pc' = "query"
    /\ UNCHANGED <<environ, dotenv, db, queries, cursorOpen, users, i, platforms,
                   order, j, uncaught>>

ConnectFailRetry ==
    /\ pc = "connect"
    /\ db.status = "down"
    /\ connects < 2
    /\ connArgs' = ConnectArgs
    /\ connects' = connects + 1
    /\ out' = Append(out, [kind |-> "db_error", exc |-> "OperationalError"])
    /\ pc' = IF connects = 0 THEN "connect" ELSE "done"
    /\ UNCHANGED <<environ, dotenv, db, connOpen, queries, cursorOpen, users, i,
                   platforms, order, j, uncaught>>

\* lines 15-21 raise, lines 81-82 report
ConnectFail ==
    /\ pc = "connect"
    /\ db.status = "down"
    /\ connArgs' = ConnectArgs
    /\ connects' = connects + 1
    /\ Handle("OperationalError")
    /\ UNCHANGED <<environ, dotenv, db, connOpen, queries, cursorOpen, users, i,
                   platforms, order, j>>

\* lines 25-43: the cursor is opened, the statement runs, the rows are fetched
QueryOk ==
    /\ pc = "query"
    /\ db.status = "ok"
    /\ queries' = queries + 1
    /\ cursorOpen' = TRUE
    /\ users' = db.rows
    /\ out' = out \o <<[kind |-> "total", n |-> Len(db.rows)], RuleLine(61)>>
    /\ pc' = "render"
    /\ UNCHANGED <<environ, dotenv, db, connArgs, connOpen, connects, i, platforms,
                   order, j, uncaught>>

\* line 27 raises; the with block closes the cursor, lines 81-82 report
QueryFail ==
    /\ pc = "query"
    /\ db.status = "no_table"
    /\ queries' = queries + 1
    /\ cursorOpen' = FALSE
    /\ Handle("ProgrammingError")
    /\ UNCHANGED <<environ, dotenv, db, connArgs, connOpen, connects, users, i,
                   platforms, order, j>>

TableHeaderAlways ==
    /\ pc = "render"
    /\ out' = out \o <<[kind |-> "header"], RuleLine(61)>>
    /\ i' = 1
    /\ pc' = "table"
    /\ UNCHANGED <<environ, dotenv, db, connArgs, connOpen, connects, queries,
                   cursorOpen, users, platforms, order, j, uncaught>>

\* lines 45-47
TableHeader ==
    /\ pc = "render"
    /\ users # <<>>
    /\ out' = out \o <<[kind |-> "header"], RuleLine(61)>>
    /\ i' = 1
    /\ pc' = "table"
    /\ UNCHANGED <<environ, dotenv, db, connArgs, connOpen, connects, queries,
                   cursorOpen, users, platforms, order, j, uncaught>>

\* lines 75-76
NoUsers ==
    /\ pc = "render"
    /\ users = <<>>
    /\ out' = Append(out, [kind |-> "empty"])
    /\ pc' = "exit_with"
    /\ UNCHANGED <<environ, dotenv, db, connArgs, connOpen, connects, queries,
                   cursorOpen, users, i, platforms, order, j, uncaught>>

\* lines 49-57, one pass of the loop; user['role'][:15] raises TypeError on a
\* null role before anything of the row is printed
TableRow ==
    /\ pc = "table"
    /\ i <= Len(users)
    /\ IF users[i].role.some
       THEN /\ out' = Append(out, [kind |-> "row", text |-> RowText(users[i])])
            /\ i' = i + 1
            /\ UNCHANGED <<pc, cursorOpen, uncaught>>
       ELSE /\ cursorOpen' = FALSE
            /\ Handle("TypeError")
            /\ i' = i
    /\ UNCHANGED <<environ, dotenv, db, connArgs, connOpen, connects, queries,
                   users, platforms, order, j>>

\* lines 59-64
TableEnd ==
    /\ pc = "table"
    /\ i > Len(users)
    /\ out' = out \o <<RuleLine(61), [kind |-> "title"], RuleLine(45)>>
    /\ platforms' = <<>>
    /\ i' = 1
    /\ pc' = "group"
    /\ UNCHANGED <<environ, dotenv, db, connArgs, connOpen, connects, queries,
                   cursorOpen, users, order, j, uncaught>>

GroupStepPrepend ==
    /\ pc = "group"
    /\ i <= Len(users)
    /\ LET platform == GroupKey(users[i].platform)
           members == IF platform \in DOMAIN platforms THEN platforms[platform]
                      ELSE <<>>
       IN  platforms' = [k \in DOMAIN platforms \cup {platform} |->
                           IF k = platform THEN <<users[i]>> \o members
                           ELSE platforms[k]]
    /\ i' = i + 1
    /\ UNCHANGED <<pc, environ, dotenv, db, connArgs, connOpen, connects, queries,
                   cursorOpen, users, order, j, out, uncaught>>

\* lines 65-69, one pass of the loop
GroupStep ==
    /\ pc = "group"
    /\ i <= Len(users)
    /\ LET platform == GroupKey(users[i].platform)
           members == IF platform \in DOMAIN platforms THEN platforms[platform]
                      ELSE <<>>
       IN  platforms' = [k \in DOMAIN platforms \cup {platform} |->
                           IF k = platform THEN Append(members, users[i])
                           ELSE platforms[k]]
    /\ i' = i + 1
    /\ UNCHANGED <<pc, environ, dotenv, db, connArgs, connOpen, connects, queries,
                   cursorOpen, users, order, j, out, uncaught>>

\* line 71, sorted(platforms.items())
SortGroups ==
    /\ pc = "group"
    /\ i > Len(users)
    /\ order' = Sorted(DOMAIN platforms)
    /\ j' = 1
    /\ pc' = "groups"
    /\ UNCHANGED <<environ, dotenv, db, connArgs, connOpen, connects, queries,
                   cursorOpen, users, i, platforms, out, uncaught>>

\* lines 72-74, one group: its header and its member lines
GroupOut ==
    /\ pc = "groups"
    /\ j <= Len(order)
    /\ LET platform == order[j]
           platform_users == platforms[platform]
       IN  out' = out
                  \o <<[kind |-> "group", text |-> Upper(platform),
                        n |-> Len(platform_users)]>>
                  \o MemberLines(platform_users)
    /\ j' = j + 1
    /\ UNCHANGED <<pc, environ, dotenv, db, connArgs, connOpen, connects, queries,
                   cursorOpen, users, i, platforms, order, uncaught>>

\* the with block of line 25 ends: the cursor is closed
ExitWith ==
    /\ \/ pc = "exit_with"
       \/ pc = "groups" /\ j > Len(order)
    /\ cursorOpen' = FALSE
    /\ pc' = "close"
    /\ UNCHANGED <<environ, dotenv, db, connArgs, connOpen, connects, queries,
                   users, i, platforms, order, j, out, uncaught>>

CloseForgotten ==
    /\ pc = "close"
    /\ pc' = "finish"
    /\ UNCHANGED <<connOpen, environ, dotenv, db, connArgs, connects, queries,
                   cursorOpen, users, i, platforms, order, j, out, uncaught>>

\* line 78
Close ==
    /\ pc = "close"
    /\ connOpen' = FALSE
    /\ pc' = "finish"
    /\ UNCHANGED <<environ, dotenv, db, connArgs, connects, queries, cursorOpen,
                   users, i, platforms, order, j, out, uncaught>>

\* line 79
Finish ==
    /\ pc = "finish"
    /\ out' = Append(out, [kind |-> "done"])
    /\ pc' = "done"
    /\ UNCHANGED <<environ, dotenv, db, connArgs, connOpen, connects, queries,
                   cursorOpen, users, i, platforms, order, j, uncaught>>

Next ==
    \/ LoadDotenv
    \/ ConnectOk
    \/ ConnectFail
    \/ QueryOk
    \/ QueryFail
    \/ TableHeader
    \/ NoUsers
    \/ TableRow
    \/ TableEnd
    \/ GroupStep
    \/ SortGroups
    \/ GroupOut
    \/ ExitWith
    \/ Close
    \/ Finish

Spec == Init /\ [][Next]_vars

\* the configuration loader and the connection attempt alone, over every
\* process environment and every .env file
NextConfig ==
    \/ LoadDotenv
    \/ ConnectOk
    \/ ConnectFail

SpecConfig == InitConfig /\ [][NextConfig]_vars

(* ------------------------ reading the output -------------------------- *)

Lines(k) == {n \in 1..Len(out) : out[n].kind = k}
Count(k) == Cardinality(Lines(k))

RECURSIVE Only(_, _)
Only(seq, kinds) ==
    IF seq = <<>> THEN <<>>
    ELSE (IF seq[1].kind \in kinds THEN <<seq[1]>> ELSE <<>>) \o Only(Tail(seq), kinds)

RowLines == Only(out, {"row"})
GroupLines == Only(out, {"group"})
MemberLinesOut == Only(out, {"member"})

Column(t, off, w) == SubSeq(t, off, off + w - 1)

\* a value in a column of width w: cut to w when longer, else padded to w
Cut(d, w) == IF Len(d) > w THEN SubSeq(d, 1, w) ELSE d \o Rep(32, w - Len(d))

\* a value in a column of at least w: never cut, padded to w when shorter
Padded(d, w) == IF Len(d) > w THEN d ELSE d \o Rep(32, w - Len(d))

Absent(o) == ~o.some \/ o.val = <<>>
ShownName(u) == IF Absent(u.full_name) THEN <<78, 47, 65>> ELSE u.full_name.val
ShownPlatform(u) == IF Absent(u.platform) THEN <<78, 47, 65>> ELSE u.platform.val
ShownLogin(u) ==
    IF u.last_login.some THEN StrDatetime(u.last_login.val)
    ELSE <<78, 101, 118, 101, 114>>

\* the group of a record as the specification words it: only an absent
\* platform becomes "General"
KeyAbsentOnly(u) == IF u.platform.some THEN u.platform.val ELSE General

\* the group of a record: an absent or empty platform becomes "General"
KeyOf(u) == IF Absent(u.platform) THEN General ELSE u.platform.val

RECURSIVE Restrict(_, _)
Restrict(seq, key) ==
    IF seq = <<>> THEN <<>>
    ELSE (IF KeyOf(seq[1]) = key THEN <<seq[1]>> ELSE <<>>) \o Restrict(Tail(seq), key)

Occurrences(seq, r) == Cardinality({n \in 1..Len(seq) : seq[n] = r})

RECURSIVE SumCounts(_)
SumCounts(seq) == IF seq = <<>> THEN 0 ELSE seq[1].n + SumCounts(Tail(seq))

\* the records of the groups printed so far, in the order of their lines
RECURSIVE Flat(_)
Flat(n) == IF n = 0 THEN <<>> ELSE Flat(n - 1) \o platforms[order[n]]

Connected == Count("connected") > 0
ConnectFailed == connects > 0 /\ ~Connected
GroupingDone == pc \in {"groups", "close", "finish", "done"} /\ Count("title") > 0
AllGroupsOut == pc \in {"close", "finish", "done"} /\ Count("title") > 0
TableKinds == {"header", "rule", "row", "title", "group", "member"}
Terminal == {"done", "db_error", "error"}

(* ------------------------------ the claims ----------------------------- *)

\* C1: a run that opened the connection has closed it when it ends, whether it
\* ends normally, on a failed query or on a failure while rendering.
C1_ClosedOnEveryExit == (pc = "done" /\ Connected) => ~connOpen

ArgOf == [v \in EnvVars |->
            CASE v = "DB_HOST" -> "host"
              [] v = "DB_PORT" -> "port"
              [] v = "DB_NAME" -> "database"
              [] v = "DB_USER" -> "user"
              [] v = "DB_PASSWORD" -> "password"]

\* C2 as stated: each connection parameter is the default when its variable is
\* unset or empty, and the variable's value otherwise.
C2_DefaultWhenUnsetOrEmpty ==
    connects > 0 =>
        \A v \in EnvVars :
            connArgs[ArgOf[v]] =
                IF v \notin DOMAIN environ \/ environ[v] = "" THEN Default[v]
                ELSE environ[v]

\* C2 as amended: each connection parameter is the default exactly when its
\* variable is unset; a variable that is set, the empty string included, is
\* passed unchanged.
C2_DefaultWhenUnset ==
    connects > 0 =>
        \A v \in EnvVars :
            connArgs[ArgOf[v]] =
                IF v \notin DOMAIN environ THEN Default[v] ELSE environ[v]

C2_Witness ==
    /\ connects > 0
    /\ "DB_HOST" \in DOMAIN environ /\ environ["DB_HOST"] = "" /\ connArgs.host = ""
    /\ "DB_PORT" \notin DOMAIN environ /\ connArgs.port = "5432"
    /\ "DB_NAME" \in DOMAIN environ /\ environ["DB_NAME"] = "dotfile"
    /\ "DB_NAME" \in DOMAIN dotenv
    /\ "DB_USER" \in DOMAIN environ /\ connArgs.user = "custom"
    /\ "DB_USER" \in DOMAIN dotenv

\* C3: a run over a non-empty query result ends with one table row per record.
C3_OneRowPerRecord ==
    (pc = "done" /\ queries = 1 /\ db.status = "ok" /\ db.rows # <<>>)
        => Len(RowLines) = Len(db.rows)

RowAsClaimed(t, u) ==
    /\ Len(t) = 128
    /\ Column(t, 1, 40) = Cut(u.email, 40)
    /\ Column(t, 42, 25) = Cut(ShownName(u), 25)
    /\ Column(t, 68, 15) = Cut(u.role.val, 15)
    /\ Column(t, 84, 15) = Cut(ShownPlatform(u), 15)
    /\ Column(t, 109, 20) = Cut(ShownLogin(u), 20)

\* C5 as stated: every printed field is cut to its column width when longer and
\* otherwise only padded: 40, 25, 15, 15 and 20 in the table, 35 for the email
\* of a member line.
C5_EveryFieldCut ==
    /\ \A k \in 1..Len(RowLines) : RowAsClaimed(RowLines[k].text, users[k])
    /\ \A k \in 1..Len(MemberLinesOut) :
         LET t == MemberLinesOut[k].text
             u == Flat(Len(GroupLines))[k]
         IN  /\ Column(t, 5, 35) = Cut(u.email, 35)
             /\ Column(t, 40, 2) = <<32, 40>>

\* C5 as amended: every table field is cut to its column width when longer and
\* otherwise only padded; the email of a member line is never cut, and is
\* padded to 35 when shorter.
C5_TableFieldsCut ==
    /\ \A k \in 1..Len(RowLines) : RowAsClaimed(RowLines[k].text, users[k])
    /\ \A k \in 1..Len(MemberLinesOut) :
         LET t == MemberLinesOut[k].text
             u == Flat(Len(GroupLines))[k]
             e == Padded(u.email, 35)
         IN  /\ Column(t, 5, Len(e)) = e
             /\ Column(t, 5 + Len(e), 2) = <<32, 40>>

C5_Witness ==
    /\ pc = "done"
    /\ Len(RowLines) = 1
    /\ Len(MemberLinesOut) = 1
    /\ Len(users[1].email) > 40
    /\ Len(users[1].full_name.val) > 25
    /\ Len(users[1].role.val) > 15
    /\ Len(users[1].platform.val) > 15
    /\ users[1].last_login.some /\ Len(ShownLogin(users[1])) > 20
    /\ Len(MemberLinesOut[1].text) > 4 + 35 + 2 + 15 + 4 + 6

\* C6 as stated: a run whose query returns no record prints the notice and no
\* header row, no separator rule, no data row, no section title and no group.
C6_NothingOfTheTable ==
    (queries = 1 /\ db.status = "ok" /\ db.rows = <<>>) =>
        /\ \A n \in 1..Len(out) : out[n].kind \notin TableKinds
        /\ pc = "done" => Count("empty") = 1

\* C6 as amended: a run whose query returns no record prints the count line,
\* the one rule under it and the notice; it prints no header row, no further
\* rule, no data row, no section title and no group.
C6_OnlyCountRuleAndNotice ==
    (queries = 1 /\ db.status = "ok" /\ db.rows = <<>>) =>
        /\ \A n \in 1..Len(out) :
             out[n].kind \in TableKinds =>
                 /\ out[n] = [kind |-> "rule", text |-> Rep(61, 120)]
                 /\ n > 1
                 /\ out[n - 1] = [kind |-> "total", n |-> 0]
        /\ Count("rule") = 1
        /\ pc \in {"exit_with", "close", "finish", "done"} => Count("empty") = 1

C6_Witness ==
    /\ pc = "done"
    /\ queries = 1 /\ db.status = "ok" /\ db.rows = <<>>
    /\ Count("empty") = 1
    /\ Count("done") = 1

\* C7: a run whose connection attempt fails prints one failure message and
\* ends, having made one attempt, run no query and printed nothing of the
\* table or the groups, and no exception leaves the program.
C7_ConnectFailureEndsRun ==
    ConnectFailed =>
        /\ pc = "done"
        /\ connects = 1
        /\ queries = 0
        /\ ~connOpen
        /\ ~uncaught
        /\ out = <<[kind |-> "db_error", exc |-> "OperationalError"]>>

C7_Witness == pc = "done" /\ ConnectFailed /\ db.status = "down" /\ Count("db_error") = 1

\* C8: the groups are printed in strictly ascending code-point order of their
\* stored keys, each key of the input once, under its uppercased label.
C8_GroupsAscending ==
    Count("title") > 0 /\ pc # "group" =>
        /\ Len(GroupLines) = j - 1
        /\ Len(GroupLines) <= Len(order)
        /\ AllGroupsOut => Len(GroupLines) = Len(order)
        /\ {order[k] : k \in 1..Len(order)} = {KeyOf(users[n]) : n \in 1..Len(users)}
        /\ \A a, b \in 1..Len(order) : a < b => LexLess(order[a], order[b])
        /\ \A k \in 1..Len(GroupLines) : GroupLines[k].text = Upper(order[k])

C8_Witness ==
    /\ pc = "done"
    /\ Len(GroupLines) = 2
    /\ order = <<General, Corp>>
    /\ GroupLines[1].text = Upper(General)
    /\ GroupLines[2].text = Upper(Corp)
    /\ LexLess(Upper(Corp), Upper(General))

\* the group line above line n of the output, and how many group lines
\* precede line n
GroupLineAbove(n) == CHOOSE g \in Lines("group") :
                        g < n /\ \A h \in Lines("group") : h < n => h <= g
GroupIndex(n) == Cardinality({g \in Lines("group") : g < n})

\* C9: the member lines of a group are the records of that group in the order
\* the query returned them.
C9_StableWithinGroup ==
    \A n \in Lines("member") :
        LET g == GroupLineAbove(n)
            members == Restrict(users, order[GroupIndex(n)])
        IN  /\ n - g <= Len(members)
            /\ out[n].text = MemberText(members[n - g])

C9_Witness ==
    /\ pc = "done"
    /\ Len(users) = 2
    /\ users[1].email # users[2].email
    /\ KeyOf(users[1]) = KeyOf(users[2])
    /\ Len(MemberLinesOut) = 2
    /\ MemberLinesOut[1].text # MemberLinesOut[2].text

\* C10: a terminal message is the last line of the output and ends the run;
\* a finished run has exactly one; the completion message comes only after
\* the close and only when connect, query and rendering all succeeded.
C10_OneTerminalMessage ==
    /\ \A n \in 1..Len(out) : out[n].kind \in Terminal => n = Len(out) /\ pc = "done"
    /\ pc = "done" => Len(out) > 0 /\ out[Len(out)].kind \in Terminal
    /\ Count("done") > 0 =>
         /\ ~connOpen
         /\ Connected
         /\ connects = 1
         /\ queries = 1
         /\ db.status = "ok"
         /\ users = db.rows
         /\ Len(RowLines) = Len(users)
         /\ Len(MemberLinesOut) = Len(users)
         /\ users = <<>> <=> Count("empty") = 1
         /\ ~uncaught

C10_Witness ==
    /\ pc = "done"
    /\ Count("done") = 1
    /\ Len(users) = 2
    /\ Len(GroupLines) = 2

====
